---- MODULE Spec2Model ----
(***************************************************************************)
(* Model of the DAC5578 I2C driver (src/src/lib.rs).                       *)
(*                                                                         *)
(* The driver owns an I2C transport and one byte of state, the bus         *)
(* address.  Every public operation encodes a frame and hands it to the    *)
(* transport in one blocking call, whose result (Ok or a transport error)  *)
(* is chosen by the environment.                                           *)
(*                                                                         *)
(* Spec        : a driver instance and the calls made on it                *)
(* SpecCodec   : encode_write_command / u16::from_be_bytes on every u16    *)
(* SpecChannel : <Channel as From<u8>>::from on every u8                   *)
(***************************************************************************)
EXTENDS Integers, Sequences, FiniteSets, TLC

VARIABLES
    address,      \* DAC5578.address: the u8 bus address stored by new
    alive,        \* FALSE once destroy has consumed the driver
    pin,          \* the Address variant that was passed to new
    call,         \* the most recent public call: [op, channel, data, mode]
    issued,       \* the transport transactions made by that call, in order
    i2cResult,    \* what the transport answered to the last transaction
    ret,          \* what that call returned to its caller
    nCalls,       \* number of public calls made so far
    nTrans,       \* number of transport transactions made so far
    nFailed,      \* number of calls so far that returned Err
    sawGeneral,   \* TRUE once wake_up_all or reset_all has been called
    stage,        \* position of the pure-function harness
    input,        \* the input drawn for the pure function
    frame,        \* result of encode_write_command
    decoded,      \* result of u16::from_be_bytes, as a 0- or 1-element sequence
    conv,         \* result of Channel::from
    panicked      \* TRUE once panic! has been reached

vars == <<address, alive, pin, call, issued, i2cResult, ret, nCalls, nTrans,
          nFailed, sawGeneral, stage, input, frame, decoded, conv, panicked>>

driverVars == <<address, alive, pin, call, issued, i2cResult, ret, nCalls,
                nTrans, nFailed, sawGeneral>>
pureVars == <<stage, input, frame, decoded, conv, panicked>>

---------------------------------------------------------------------------
(* Bounds and sample sets *)

\* Longest sequence of public calls explored on one driver instance.
MaxCalls == 3

\* Largest u16 and u8.
U16Max == 65535
U8Max == 255

\* Data words passed to the write-family operations: zero, a value that fits
\* one byte (200), a value with two different non-zero bytes (0x1234).
DataValues == {0, 200, 4660}

\* Byte pairs the transport may leave in the read buffer.
ResponseBytes == {<<0, 200>>, <<18, 52>>, <<255, 255>>}

\* Values of the transport's error type E (generic in the source).
Errors == {"Nack", "ArbitrationLoss"}

---------------------------------------------------------------------------
(* Enumerations and their `as u8` casts *)

Address == {"PinLow", "PinHigh", "PinFloat"}

AddressAsU8(a) ==
    CASE a = "PinLow"   -> 72      \* 0x48
      [] a = "PinHigh"  -> 74      \* 0x4a
      [] a = "PinFloat" -> 76      \* 0x4c

Channel == {"A", "B", "C", "D", "E", "F", "G", "H", "All"}

ChannelAsU8(c) ==
    CASE c = "A" -> 0 [] c = "B" -> 1 [] c = "C" -> 2 [] c = "D" -> 3
      [] c = "E" -> 4 [] c = "F" -> 5 [] c = "G" -> 6 [] c = "H" -> 7
      [] c = "All" -> 15           \* 0xf

WriteCommandType ==
    {"WriteToChannel", "UpdateChannel", "WriteToChannelAndUpdate",
     "WriteToChannelAndUpdateAll"}

WriteCommandTypeAsU8(t) ==
    CASE t = "WriteToChannel"             -> 0       \* 0x00
      [] t = "UpdateChannel"              -> 16      \* 0x10
      [] t = "WriteToChannelAndUpdate"    -> 48      \* 0x30
      [] t = "WriteToChannelAndUpdateAll" -> 32      \* 0x20

ReadCommandType == {"ReadFromChannel"}

ReadCommandTypeAsU8(t) ==
    CASE t = "ReadFromChannel" -> 16                 \* 0x10

ResetMode == {"Por", "SetHighSpeed", "MaintainHighSpeed"}

ResetModeAsU8(m) ==
    CASE m = "Por" -> 0 [] m = "SetHighSpeed" -> 1 [] m = "MaintainHighSpeed" -> 2

---------------------------------------------------------------------------
(* Integer helpers of the u8 / u16 types *)

\* a | b on unsigned integers, bit by bit.
RECURSIVE BitOr(_, _)
BitOr(a, b) ==
    IF a = 0 /\ b = 0 THEN 0
    ELSE (IF a % 2 = 1 \/ b % 2 = 1 THEN 1 ELSE 0) + 2 * BitOr(a \div 2, b \div 2)

\* u16::to_be_bytes: high byte first.
to_be_bytes_le(value) == <<value % 256, (value \div 256) % 256>>
to_be_bytes(value) == <<(value \div 256) % 256, value % 256>>

\* u16::from_be_bytes on a two-byte array.
from_be_bytes(b) == b[1] * 256 + b[2]

---------------------------------------------------------------------------
(* Encoders *)

\* Mutants: the family code dropped; the one-byte payload layout [cmd, v, 0].
encode_write_command_no_family(command, access, value) ==
    LET value_bytes == to_be_bytes(value)
    IN  <<access, value_bytes[1], value_bytes[2]>>
encode_write_command_8bit(command, access, value) ==
    <<BitOr(command, access), value % 256, 0>>
encode_write_command(command, access, value) ==
    LET value_bytes == to_be_bytes(value)
    IN  <<BitOr(command, access), value_bytes[1], value_bytes[2]>>

encode_read_command_no_access(command, access) == <<command>>
encode_read_command(command, access) == <<BitOr(command, access)>>

---------------------------------------------------------------------------
(* The I2C transport (embedded_hal::blocking::i2c), an external collaborator: *)
(* each call is answered Ok or Err(e); a write_read also fills the buffer.    *)

Tx(kind, addr, bytes, buflen) ==
    [kind |-> kind, addr |-> addr, bytes |-> bytes, buflen |-> buflen]

I2cWriteOutcomes ==
    {[tag |-> "Ok", err |-> "none", response |-> <<>>]}
    \cup {[tag |-> "Err", err |-> e, response |-> <<>>] : e \in Errors}

\* On failure the buffer holds whatever the transport left in it.
I2cWriteReadOutcomes ==
    {[tag |-> "Ok", err |-> "none", response |-> r] : r \in ResponseBytes}
    \cup {[tag |-> "Err", err |-> e, response |-> r] : e \in Errors, r \in ResponseBytes}

\* Result<(), E> and Result<u16, E> values.
OkUnit == [tag |-> "Ok", val |-> <<>>, err |-> "none"]
OkValue(v) == [tag |-> "Ok", val |-> <<v>>, err |-> "none"]
Err(e) == [tag |-> "Err", val |-> <<>>, err |-> e]

\* `self.i2c.write(..)` returned as the method's own result.
Passthrough(res) == IF res.tag = "Ok" THEN OkUnit ELSE Err(res.err)

---------------------------------------------------------------------------
(* The driver *)

NoCall == [op |-> "none", channel |-> "-", data |-> <<>>, mode |-> "-"]
NoResult == [tag |-> "none", val |-> <<>>, err |-> "none"]
NoAnswer == [tag |-> "none", err |-> "none", response |-> <<>>]

\* DAC5578::new: store the pin's address.
new(a) ==
    /\ address = AddressAsU8(a)
    /\ alive = TRUE

\* A method taking &mut self can run: the driver exists (and the model's
\* bound on the number of calls is not reached).
CanCall == alive /\ nCalls < MaxCalls

\* Bookkeeping shared by the methods: none of them assigns self.address.
Complete(op, channel, data, mode, txns, res, result) ==
    /\ call' = [op |-> op, channel |-> channel, data |-> data, mode |-> mode]
    /\ issued' = txns
    /\ i2cResult' = res
    /\ ret' = result
    /\ nCalls' = nCalls + 1
    /\ nTrans' = nTrans + Len(txns)
    /\ nFailed' = nFailed + (IF result.tag = "Err" THEN 1 ELSE 0)
    /\ sawGeneral' = (sawGeneral \/ op \in {"wake_up_all", "reset_all"})
    /\ UNCHANGED <<address, alive, pin>>
    /\ UNCHANGED pureVars

\* Mutant: Channel::All refused before anything is sent.
write_rejecting_all(channel, data) ==
    /\ CanCall
    /\ \E res \in I2cWriteOutcomes :
         LET bytes == encode_write_command(WriteCommandTypeAsU8("WriteToChannel"),
                                           ChannelAsU8(channel), data)
         IN  IF channel = "All"
             THEN Complete("write", channel, <<data>>, "-", <<>>, NoAnswer,
                           Err("InvalidChannel"))
             ELSE Complete("write", channel, <<data>>, "-",
                           <<Tx("write", address, bytes, 0)>>, res, Passthrough(res))
write(channel, data) ==
    /\ CanCall
    /\ \E res \in I2cWriteOutcomes :
         LET bytes == encode_write_command(WriteCommandTypeAsU8("WriteToChannel"),
                                           ChannelAsU8(channel), data)
         IN  Complete("write", channel, <<data>>, "-",
                      <<Tx("write", address, bytes, 0)>>, res, Passthrough(res))

\* Mutants: a failed transaction tried once more; the error dropped.
read_retry(channel) ==
    /\ CanCall
    /\ \E res \in I2cWriteReadOutcomes :
         LET bytes == encode_read_command(ReadCommandTypeAsU8("ReadFromChannel"),
                                          ChannelAsU8(channel))
             tx == Tx("write_read", address, bytes, 2)
         IN  Complete("read", channel, <<>>, "-",
                      IF res.tag = "Err" THEN <<tx, tx>> ELSE <<tx>>, res,
                      IF res.tag = "Err" THEN Err(res.err)
                      ELSE OkValue(from_be_bytes(res.response)))
read_ignoring_error(channel) ==
    /\ CanCall
    /\ \E res \in I2cWriteReadOutcomes :
         LET bytes == encode_read_command(ReadCommandTypeAsU8("ReadFromChannel"),
                                          ChannelAsU8(channel))
         IN  Complete("read", channel, <<>>, "-",
                      <<Tx("write_read", address, bytes, 2)>>, res,
                      OkValue(from_be_bytes(res.response)))
read(channel) ==
    /\ CanCall
    /\ \E res \in I2cWriteReadOutcomes :
         LET bytes == encode_read_command(ReadCommandTypeAsU8("ReadFromChannel"),
                                          ChannelAsU8(channel))
         IN  Complete("read", channel, <<>>, "-",
                      <<Tx("write_read", address, bytes, 2)>>, res,
                      IF res.tag = "Err" THEN Err(res.err)
                      ELSE OkValue(from_be_bytes(res.response)))

update(channel, data) ==
    /\ CanCall
    /\ \E res \in I2cWriteOutcomes :
         LET bytes == encode_write_command(WriteCommandTypeAsU8("UpdateChannel"),
                                           ChannelAsU8(channel), data)
         IN  Complete("update", channel, <<data>>, "-",
                      <<Tx("write", address, bytes, 0)>>, res, Passthrough(res))

write_and_update(channel, data) ==
    /\ CanCall
    /\ \E res \in I2cWriteOutcomes :
         LET bytes == encode_write_command(WriteCommandTypeAsU8("WriteToChannelAndUpdate"),
                                           ChannelAsU8(channel), data)
         IN  Complete("write_and_update", channel, <<data>>, "-",
                      <<Tx("write", address, bytes, 0)>>, res, Passthrough(res))

write_and_update_all(channel, data) ==
    /\ CanCall
    /\ \E res \in I2cWriteOutcomes :
         LET bytes == encode_write_command(WriteCommandTypeAsU8("WriteToChannelAndUpdateAll"),
                                           ChannelAsU8(channel), data)
         IN  Complete("write_and_update_all", channel, <<data>>, "-",
                      <<Tx("write", address, bytes, 0)>>, res, Passthrough(res))

\* Mutant: the reset frame sent to the general-call address.
reset_to_general_call(mode) ==
    /\ CanCall
    /\ \E res \in I2cWriteOutcomes :
         LET bytes == <<112, ResetModeAsU8(mode), 0>>
         IN  Complete("reset", "-", <<>>, mode,
                      <<Tx("write", 0, bytes, 0)>>, res, Passthrough(res))
reset(mode) ==
    /\ CanCall
    /\ \E res \in I2cWriteOutcomes :
         LET bytes == <<112, ResetModeAsU8(mode), 0>>      \* 0x70
         IN  Complete("reset", "-", <<>>, mode,
                      <<Tx("write", address, bytes, 0)>>, res, Passthrough(res))

\* Mutant: the wake-up sent to the device's own address.
wake_up_all_own_address ==
    /\ CanCall
    /\ \E res \in I2cWriteOutcomes :
         Complete("wake_up_all", "-", <<>>, "-",
                  <<Tx("write", address, <<6>>, 0)>>, res,
                  IF res.tag = "Err" THEN Err(res.err) ELSE OkUnit)
wake_up_all ==
    /\ CanCall
    /\ \E res \in I2cWriteOutcomes :
         Complete("wake_up_all", "-", <<>>, "-",
                  <<Tx("write", 0, <<6>>, 0)>>, res,
                  IF res.tag = "Err" THEN Err(res.err) ELSE OkUnit)

reset_all ==
    /\ CanCall
    /\ \E res \in I2cWriteOutcomes :
         Complete("reset_all", "-", <<>>, "-",
                  <<Tx("write", 0, <<9>>, 0)>>, res,
                  IF res.tag = "Err" THEN Err(res.err) ELSE OkUnit)

\* destroy(self): the driver is consumed; no method can be called afterwards.
destroy ==
    /\ alive
    /\ alive' = FALSE
    /\ UNCHANGED <<address, pin, call, issued, i2cResult, ret, nCalls, nTrans,
                   nFailed, sawGeneral>>
    /\ UNCHANGED pureVars

---------------------------------------------------------------------------
(* Pure-function harness *)

PureIdle ==
    /\ stage = "idle"
    /\ input = 0
    /\ frame = <<>>
    /\ decoded = <<>>
    /\ conv = "none"
    /\ panicked = FALSE

\* No driver instance: the associated functions need none.
NoDriver ==
    /\ address = AddressAsU8("PinLow")
    /\ pin = "PinLow"
    /\ alive = FALSE
    /\ call = NoCall
    /\ issued = <<>>
    /\ i2cResult = NoAnswer
    /\ ret = NoResult
    /\ nCalls = 0
    /\ nTrans = 0
    /\ nFailed = 0
    /\ sawGeneral = FALSE

\* <Channel as From<u8>>::from: the match on index; "panic" is the `_` arm.
channel_from(index) ==
    CASE index = 0 -> "A" [] index = 1 -> "B" [] index = 2 -> "C"
      [] index = 3 -> "D" [] index = 4 -> "E" [] index = 5 -> "F"
      [] index = 6 -> "G" [] index = 7 -> "H"
      [] OTHER -> "panic"

ChannelFrom ==
    /\ stage = "init"
    /\ IF channel_from(input) = "panic"
       THEN /\ panicked' = TRUE
            /\ stage' = "aborted"
            /\ UNCHANGED conv
       ELSE /\ conv' = channel_from(input)
            /\ stage' = "converted"
            /\ UNCHANGED panicked
    /\ UNCHANGED <<input, frame, decoded>>
    /\ UNCHANGED driverVars

EncodeWrite(command, channel) ==
    /\ stage = "init"
    /\ frame' = encode_write_command(WriteCommandTypeAsU8(command),
                                     ChannelAsU8(channel), input)
    /\ stage' = "encoded"
    /\ UNCHANGED <<input, decoded, conv, panicked>>
    /\ UNCHANGED driverVars

\* The decoding step of read, applied to the payload bytes of the frame.
DecodeFrame ==
    /\ stage = "encoded"
    /\ decoded' = <<from_be_bytes(<<frame[2], frame[3]>>)>>
    /\ stage' = "decoded"
    /\ UNCHANGED <<input, frame, conv, panicked>>
    /\ UNCHANGED driverVars

---------------------------------------------------------------------------
(* Specifications *)

Init ==
    /\ \E a \in Address : pin = a /\ new(a)
    /\ call = NoCall
    /\ issued = <<>>
    /\ i2cResult = NoAnswer
    /\ ret = NoResult
    /\ nCalls = 0
    /\ nTrans = 0
    /\ nFailed = 0
    /\ sawGeneral = FALSE
    /\ PureIdle

Next ==
    \/ \E c \in Channel, d \in DataValues : write(c, d)
    \/ \E c \in Channel : read(c)
    \/ \E c \in Channel, d \in DataValues : update(c, d)
    \/ \E c \in Channel, d \in DataValues : write_and_update(c, d)
    \/ \E c \in Channel, d \in DataValues : write_and_update_all(c, d)
    \/ \E m \in ResetMode : reset(m)
    \/ wake_up_all
    \/ reset_all
    \/ destroy

Spec == Init /\ [][Next]_vars

InitCodec ==
    /\ NoDriver
    /\ stage = "init"
    /\ input \in 0..U16Max
    /\ frame = <<>>
    /\ decoded = <<>>
    /\ conv = "none"
    /\ panicked = FALSE

NextCodec ==
    \/ \E t \in WriteCommandType, c \in Channel : EncodeWrite(t, c)
    \/ DecodeFrame

SpecCodec == InitCodec /\ [][NextCodec]_vars

InitChannel ==
    /\ NoDriver
    /\ stage = "init"
    /\ input \in 0..U8Max
    /\ frame = <<>>
    /\ decoded = <<>>
    /\ conv = "none"
    /\ panicked = FALSE

NextChannel == ChannelFrom

SpecChannel == InitChannel /\ [][NextChannel]_vars

---------------------------------------------------------------------------
(* Tables of the wire format, as the claims state them *)

WriteFamilyOps == {"write", "update", "write_and_update", "write_and_update_all"}
GeneralCallOps == {"wake_up_all", "reset_all"}
DeviceOps == WriteFamilyOps \cup {"read", "reset"}

FamilyCode(op) ==
    CASE op = "write" -> 0 [] op = "update" -> 16
      [] op = "write_and_update" -> 48 [] op = "write_and_update_all" -> 32
      [] op = "read" -> 16

Selector(c) ==
    IF c = "All" THEN 15
    ELSE CHOOSE i \in 0..7 : <<"A", "B", "C", "D", "E", "F", "G", "H">>[i + 1] = c

---------------------------------------------------------------------------
(* Claims *)

\* C1: for every write-family operation and every channel, byte 0 of the frame
\* is familyCode | channelSelector (the two nibbles do not overlap, so the OR
\* is their sum); its upper nibble is that of this family and of no other, its
\* lower nibble is the selector of this channel and of no other, so distinct
\* (family, channel) pairs never give the same byte 0.
C1_Byte0 ==
    call.op \in WriteFamilyOps =>
        /\ Len(issued) >= 1
        /\ Len(issued[1].bytes) = 3
        /\ LET b0 == issued[1].bytes[1]
           IN  /\ b0 = FamilyCode(call.op) + Selector(call.channel)
               /\ b0 \div 16 = FamilyCode(call.op) \div 16
               /\ b0 % 16 = Selector(call.channel)
               /\ {op \in WriteFamilyOps : FamilyCode(op) \div 16 = b0 \div 16} = {call.op}
               /\ {c \in Channel : Selector(c) = b0 % 16} = {call.channel}

C1_Witness ==
    /\ call.op = "write_and_update"
    /\ call.channel = "All"
    /\ Len(issued) = 1
    /\ issued[1].bytes[1] = 63

\* C2 as stated: a write-family operation with a value v in 0..255 sends
\* [familyCode | channelSelector, v, 0x00].
C2_Original ==
    (call.op \in WriteFamilyOps /\ call.data[1] \in 0..255) =>
        issued = <<Tx("write", address,
                      <<FamilyCode(call.op) + Selector(call.channel), call.data[1], 0>>,
                      0)>>

\* C2, amended: a write-family operation with a value v in 0..255 sends the
\* 3-byte frame [familyCode | channelSelector, 0x00, v] (the payload is always
\* the 16-bit big-endian word, so v is byte 2 and byte 1 is zero), and
\* write(Channel::A, 200) on a PinLow driver issues exactly one transport write
\* to 0x48 with bytes [0x00, 0x00, 200].
C2_Amended ==
    /\ (call.op \in WriteFamilyOps /\ call.data[1] \in 0..255) =>
         issued = <<Tx("write", address,
                       <<FamilyCode(call.op) + Selector(call.channel), 0, call.data[1]>>,
                       0)>>
    /\ (pin = "PinLow" /\ call.op = "write" /\ call.channel = "A" /\ call.data = <<200>>) =>
         issued = <<[kind |-> "write", addr |-> 72, bytes |-> <<0, 0, 200>>, buflen |-> 0]>>

C2_Witness ==
    /\ pin = "PinLow"
    /\ call = [op |-> "write", channel |-> "A", data |-> <<200>>, mode |-> "-"]
    /\ issued = <<[kind |-> "write", addr |-> 72, bytes |-> <<0, 0, 200>>, buflen |-> 0]>>
    /\ ret = OkUnit

\* C3: every public operation issues exactly one transport transaction per
\* call, whether the transport succeeds or fails: a write_read for read, a
\* plain write for the other seven, and the call has returned a Result once the
\* transaction is made.
C3_OneTransaction ==
    /\ nTrans = nCalls
    /\ call.op # "none" =>
         /\ Len(issued) = 1
         /\ issued[1].kind = (IF call.op = "read" THEN "write_read" ELSE "write")
         /\ i2cResult.tag \in {"Ok", "Err"}
         /\ ret.tag = i2cResult.tag

C3_Witness ==
    /\ nCalls = 3
    /\ nTrans = 3
    /\ nFailed = 2
    /\ call.op = "read"
    /\ ret.tag = "Ok"
    /\ issued[1].kind = "write_read"

\* C4: a call whose transport transaction fails with error e returns exactly
\* Err(e) with no decoded value, has made that one transaction and no other,
\* and leaves the driver (its address, its existence) as it was before the call.
C4_ErrorPropagation ==
    [][ (nCalls' = nCalls + 1 /\ i2cResult'.tag = "Err") =>
          /\ ret' = [tag |-> "Err", val |-> <<>>, err |-> i2cResult'.err]
          /\ Len(issued') = 1
          /\ nTrans' = nTrans + 1
          /\ address' = address
          /\ alive' = alive ]_vars

C4_Witness ==
    /\ call.op = "read"
    /\ i2cResult.tag = "Err"
    /\ i2cResult.response = <<18, 52>>
    /\ ret = [tag |-> "Err", val |-> <<>>, err |-> "ArbitrationLoss"]
    /\ nFailed = 2
    /\ nTrans = 2

\* C6: wake_up_all and reset_all send their single write to the general-call
\* address 0x00, with the frames [0x06] and [0x09], whatever the configured
\* address and whatever was called before; never to the device's own address.
C6_GeneralCall ==
    call.op \in GeneralCallOps =>
        /\ issued = <<[kind |-> "write", addr |-> 0,
                       bytes |-> (IF call.op = "wake_up_all" THEN <<6>> ELSE <<9>>),
                       buflen |-> 0]>>
        /\ issued[1].addr # address

C6_Witness ==
    /\ pin = "PinFloat"
    /\ address = 76
    /\ nCalls = 3
    /\ nFailed >= 1
    /\ call.op = "reset_all"
    /\ issued = <<[kind |-> "write", addr |-> 0, bytes |-> <<9>>, buflen |-> 0]>>

\* C7: read(channel) makes one write-then-read transaction to the device
\* address, writing the single byte 0x10 | channelSelector with a 2-byte read
\* buffer, and on success returns b0 * 256 + b1 for the bytes [b0, b1] the
\* transport left in the buffer.
C7_Read ==
    call.op = "read" =>
        /\ issued = <<[kind |-> "write_read", addr |-> address,
                       bytes |-> <<16 + Selector(call.channel)>>, buflen |-> 2]>>
        /\ i2cResult.tag = "Ok" =>
             ret = [tag |-> "Ok",
                    val |-> <<i2cResult.response[1] * 256 + i2cResult.response[2]>>,
                    err |-> "none"]

C7_Witness ==
    /\ call.op = "read"
    /\ call.channel = "C"
    /\ issued[1].bytes = <<18>>
    /\ i2cResult = [tag |-> "Ok", err |-> "none", response |-> <<18, 52>>]
    /\ ret = OkValue(4660)

\* C8 as stated: write, update, write_and_update and read called with
\* Channel::All are rejected and put no frame with lower nibble 0xF on the bus.
C8_Original ==
    (call.channel = "All" /\ call.op \in {"write", "update", "write_and_update", "read"}) =>
        /\ ret.tag = "Err"
        /\ \A i \in 1..Len(issued) : issued[i].bytes[1] % 16 # 15

\* C8, amended: Channel::All (selector 0xF) is accepted by every operation that
\* takes a channel, not only by write_and_update_all: write, update,
\* write_and_update and read called with Channel::All are not rejected, each
\* puts exactly one frame whose byte 0 is familyCode | 0x0F on the bus, and
\* each returns what the transport answered.
C8_Amended ==
    (call.channel = "All" /\ call.op \in WriteFamilyOps \cup {"read"}) =>
        /\ Len(issued) = 1
        /\ issued[1].bytes[1] = FamilyCode(call.op) + 15
        /\ issued[1].bytes[1] % 16 = 15
        /\ ret.tag = i2cResult.tag
        /\ ret.err = i2cResult.err

C8_Witness ==
    /\ call.op = "write"
    /\ call.channel = "All"
    /\ issued[1].bytes = <<15, 18, 52>>
    /\ ret = OkUnit

\* C9: the stored address is the one new derived from the pin (0x48, 0x4A or
\* 0x4C) after any sequence of calls, failed ones and general calls included,
\* and every transaction of write, update, write_and_update,
\* write_and_update_all, read and reset goes to that address.
C9_AddressFixed ==
    /\ address = (IF pin = "PinLow" THEN 72 ELSE IF pin = "PinHigh" THEN 74 ELSE 76)
    /\ call.op \in DeviceOps =>
         /\ Len(issued) >= 1
         /\ \A i \in 1..Len(issued) : issued[i].addr = address

C9_Witness ==
    /\ pin = "PinHigh"
    /\ sawGeneral
    /\ nFailed >= 1
    /\ nCalls = 3
    /\ call.op = "reset"
    /\ issued[1].addr = 74

\* C10: bytes 1 and 2 of the frame of a write-family command are the high and
\* the low byte of the 16-bit value, and decoding them as read decodes its
\* response gives the value back.
C10_RoundTrip ==
    /\ stage \in {"encoded", "decoded"} =>
         /\ Len(frame) = 3
         /\ frame[2] = input \div 256
         /\ frame[3] = input % 256
    /\ stage = "decoded" => decoded = <<input>>

C10_Witness ==
    /\ stage = "decoded"
    /\ input = 4660
    /\ frame = <<63, 18, 52>>
    /\ decoded = <<4660>>

\* C5: converting a raw index to a Channel gives A..H for 0..7 and a
\* recoverable error for every other index; it never panics.
C5_FallibleConversion ==
    stage # "init" =>
        /\ ~panicked
        /\ input \in 0..7 => conv = <<"A", "B", "C", "D", "E", "F", "G", "H">>[input + 1]
        /\ input \notin 0..7 => conv = "error"

====
